---------------------------- MODULE Spec2Model ----------------------------
(***************************************************************************)
(* Hit-streak leaderboards of nlhoran/hit_streaks.                         *)
(*                                                                         *)
(* Three Streamlit scripts share one algorithm and one cache file:         *)
(*   "leaderboard"  src/hitstreak_leaderboard.py   (ranked by Last_15)     *)
(*   "links"        src/simple_streaks_links.py    (ranked by streak)      *)
(*   "cached"       src/simple_streaks_cached.py   (ranked by streak)      *)
(*                                                                         *)
(* Spec       one iteration of the loop of fetch_hit_streaks: the request  *)
(*            of one player's game log, the extraction and date sort, the  *)
(*            streak scan game by game, the trailing window, the append.   *)
(***************************************************************************)
EXTENDS Integers, Sequences, FiniteSets, TLC

VARIABLES
    variant,          \* which script runs
    pc,               \* position inside the loop body of fetch_hit_streaks
    game_data,        \* splits of the game-log response, in provider order
    games,            \* the extracted list, after sorted(games, key=date)
    idx,              \* number of games already visited by "for game in games"
    streak,           \* running counter of the scan
    max_streak,
    games_with_hit,
    player_id,        \* the player of the current iteration
    all_streak_data,  \* the records appended so far
    cache_file,       \* mlb_streak_cache/current_streaks.json
    session,          \* st.session_state of the script's session
    data_source,      \* the "Data Source" radio of the current run
    streak_data,      \* the script's streak_data of the current run
    build,            \* what the last call of the fetch function did
    query,            \* the filter widgets read by the last display
    shown,            \* what the last run put on the page
    fetcher,          \* the cached fetch function followed in time
    api_key,          \* RAPIDAPI_KEY is configured
    endpoint,         \* the endpoint of the request followed
    disk,             \* the cache file of that request
    api_call_count,   \* st.session_state.api_call_count
    api_call_reset,   \* api_call_reset_time, as seconds from now
    depth,            \* nested calls of fetch_from_rapidapi below the first
    sent,             \* the HTTP requests of the last minute, by age
    api_pc,           \* position inside the fetch function
    result,           \* what the last call of the fetch function did
    stats_in,         \* what get_batter_vs_pitcher returned, pair by pair
    matchup_ix,       \* number of pairs process_matchup was called for
    all_matchups,     \* the list process_matchup appends to
    matchup_data,     \* st.session_state.matchup_data
    filtered_matchups,\* the list the page shows
    matchup_pc,       \* position inside the matchup page
    selected_game_date, \* st.session_state.selected_game_date
    game_date,        \* game_date of the current run
    game_count,       \* number of games in the provider's answer
    game_ix,          \* games visited by the loop of process_matchups
    roster_games,     \* the last game get_team_roster was called for
    matchup_cache,    \* st.session_state.matchup_cache
    asked             \* calls of get_batter_vs_pitcher and fetches, by batter

scanVars == <<game_data, games, idx, streak, max_streak, games_with_hit,
              player_id, all_streak_data>>

boardVars == <<cache_file, session, data_source, streak_data, build, query,
               shown>>

procVars == <<stats_in, matchup_ix, all_matchups, matchup_data,
              filtered_matchups, matchup_pc, selected_game_date, game_date,
              game_count, game_ix, roster_games, matchup_cache, asked>>

matchupVars == <<fetcher, api_key, endpoint, disk, api_call_count,
                 api_call_reset, depth, sent, api_pc, result, procVars>>

vars == <<variant, pc, scanVars, boardVars, matchupVars>>

-----------------------------------------------------------------------------
(* Bounds of the model                                                     *)

\* longest game log enumerated entry by entry (any dates, any order)
MaxGames == 3
\* number of calendar days such a log draws its dates from
MaxDates == 3
\* long logs are enumerated as alternating runs of hit / no-hit games
MaxRuns == 3
MaxRunLen == 6
\* players in the season totals
MaxPlayers == 2
\* batters with a matchup to look up (one a game, in the first games)
MaxMatchups == 2

(* Program constants                                                       *)

\* games[-15:] in hitstreak_leaderboard.py
LAST_15_WINDOW == 15
\* games[-10:] in simple_streaks_links.py
LAST_10_WINDOW == 10

Variants == {"leaderboard", "links", "cached"}

\* the 'id' of the players of the season totals
PlayerIds == 1..MaxPlayers

-----------------------------------------------------------------------------
(* Helpers                                                                 *)

Min(a, b) == IF a < b THEN a ELSE b

Max(a, b) == IF a > b THEN a ELSE b

Range(s) == {s[i] : i \in 1..Len(s)}

RECURSIVE SumSeq(_)
SumSeq(s) == IF s = <<>> THEN 0 ELSE s[1] + SumSeq(Tail(s))

-----------------------------------------------------------------------------
(* The game-log provider                                                   *)

\* The 'date' of a split is an ISO string; the year and month being equal,
\* what the comparison sees is the zero-padded day "DD": two digits.
DateOf(n) == <<n \div 10, n % 10>>

\* the calendar day a date string denotes
DayNo(d) == 10 * d[1] + d[2]

\* Python's str < str on two such strings: lexicographic on the characters
DateLess(a, b) == a[1] < b[1] \/ (a[1] = b[1] /\ a[2] < b[2])

\* what a player did in one game: official at-bats and hits;
\* atBats = 0 is a walk-only or hit-by-pitch-only appearance
GameStats ==
    { [atBats |-> 0, hits |-> 0], [atBats |-> 3, hits |-> 0],
      [atBats |-> 4, hits |-> 2] }

Split(d, s) == [date |-> d, atBats |-> s.atBats, hits |-> s.hits]

\* the days "09", "10", "11", ...: the first digit changes within the range
ShortDates == {DateOf(9 + k) : k \in 0..(MaxDates - 1)}

ShortSplits == {Split(d, s) : d \in ShortDates, s \in GameStats}

\* every log of at most MaxGames splits, in any order, dates repeated or not
ShortLogs == UNION {[1..n -> ShortSplits] : n \in 0..MaxGames}

\* a log of alternating runs: lens[k] games of one kind, then the other kind
RECURSIVE RunPattern(_, _)
RunPattern(lens, first) ==
    IF lens = <<>> THEN <<>>
    ELSE [i \in 1..lens[1] |-> first] \o RunPattern(Tail(lens), 1 - first)

\* the long logs: one game a day from day 1 on, in ascending order, each game
\* with an official at-bat
LongLog(pattern) ==
    [i \in 1..Len(pattern) |->
        [date |-> DateOf(i), atBats |-> 4, hits |-> pattern[i]]]

LongLogs ==
    { LongLog(RunPattern(lens, first)) :
        lens \in [1..MaxRuns -> 0..MaxRunLen], first \in {0, 1} }

GameLogs == ShortLogs \cup LongLogs

-----------------------------------------------------------------------------
(* fetch_hit_streaks: the body of "for i, player_id in enumerate(...)"     *)

\* games.append({'date': game_date, 'had_hit': 1 if hits > 0 else 0})
ExtractGame(split) ==
    [date |-> split.date, had_hit |-> IF split.hits > 0 THEN 1 ELSE 0]

ExtractGames(splits) == [i \in 1..Len(splits) |-> ExtractGame(splits[i])]

\* sorted() is stable: g goes after every element whose key is <= its own
InsertByDate(sorted, g) ==
    LET k == Cardinality({i \in 1..Len(sorted) : ~DateLess(g.date, sorted[i].date)})
    IN  SubSeq(sorted, 1, k) \o <<g>> \o SubSeq(sorted, k + 1, Len(sorted))

RECURSIVE SortLoop(_, _)
SortLoop(done, rest) ==
    IF rest = <<>> THEN done
    ELSE SortLoop(InsertByDate(done, rest[1]), Tail(rest))

\* the list left in provider order (the sort forgotten)
UnsortedGames(gs) == gs

\* games = sorted(games, key=lambda x: x['date'])
SortedByDate(gs) == SortLoop(<<>>, gs)

\* a hitless game that leaves the running counter alone
ScanGameNoReset(c, game) ==
    IF game.had_hit = 1
    THEN [streak |-> c.streak + 1,
          games_with_hit |-> c.games_with_hit + 1,
          max_streak |-> Max(c.max_streak, c.streak + 1)]
    ELSE c

\* max_streak updated from the counter before its increment
ScanGameStaleMax(c, game) ==
    IF game.had_hit = 1
    THEN [streak |-> c.streak + 1,
          games_with_hit |-> c.games_with_hit + 1,
          max_streak |-> Max(c.max_streak, c.streak)]
    ELSE [streak |-> 0,
          games_with_hit |-> c.games_with_hit,
          max_streak |-> c.max_streak]

\* one pass of "for game in games": c holds streak, max_streak, games_with_hit
ScanGame(c, game) ==
    IF game.had_hit = 1
    THEN [streak |-> c.streak + 1,
          games_with_hit |-> c.games_with_hit + 1,
          max_streak |-> Max(c.max_streak, c.streak + 1)]
    ELSE [streak |-> 0,
          games_with_hit |-> c.games_with_hit,
          max_streak |-> c.max_streak]

\* the window taken from the start of the season: games[:n]
LastNHitsFromStart(gs, n) ==
    LET had == [i \in 1..Len(gs) |-> gs[i].had_hit]
    IN  SumSeq(SubSeq(had, 1, Min(n, Len(gs))))

\* sum(g['had_hit'] for g in games[-n:]) if len(games) >= n else sum(all)
LastNHits(gs, n) ==
    LET had == [i \in 1..Len(gs) |-> gs[i].had_hit]
    IN  IF Len(gs) >= n
        THEN SumSeq(SubSeq(had, Len(gs) - n + 1, Len(gs)))
        ELSE SumSeq(had)

\* the dict appended to all_streak_data; the window column is the script's
StreakRecord(v, pid, gwh, cur, mx, gs) ==
    LET base == [playerid |-> pid, Games_With_Hit |-> gwh,
                 Current_Streak |-> cur, Max_Hit_Streak |-> mx]
    IN  CASE v = "leaderboard" ->
                base @@ ("Last_15" :> LastNHits(gs, LAST_15_WINDOW))
          [] v = "links" ->
                base @@ ("Last_10" :> LastNHits(gs, LAST_10_WINDOW))
          [] OTHER -> base

\* the whole scan of one list of games
RECURSIVE ScanLoop(_, _)
ScanLoop(c, gs) ==
    IF gs = <<>> THEN c ELSE ScanLoop(ScanGame(c, gs[1]), Tail(gs))

\* what one iteration appends: nothing when the request failed or the log
\* is empty ("if games:"), one record otherwise
GameLogRecords(v, pid, out) ==
    IF out.ok /\ out.log # <<>>
    THEN LET gs == SortedByDate(ExtractGames(out.log))
             c == ScanLoop([streak |-> 0, max_streak |-> 0,
                            games_with_hit |-> 0], gs)
         IN  <<StreakRecord(v, pid, c.games_with_hit, c.streak,
                            c.max_streak, gs)>>
    ELSE <<>>

\* fetch_hit_streaks(player_ids, ...): the rows of the DataFrame it returns
RECURSIVE FetchHitStreaks(_, _, _)
FetchHitStreaks(v, ids, outs) ==
    IF ids = <<>> THEN <<>>
    ELSE GameLogRecords(v, ids[1], outs[ids[1]])
            \o FetchHitStreaks(v, Tail(ids), outs)

-----------------------------------------------------------------------------
(* DataFrames: a frame is the sequence of its rows, a row a record whose   *)
(* fields are the frame's columns.  A cell of a statistics column is <<n>> *)
(* for the number n and <<>> for NaN.                                      *)

Num(n) == <<n>>

NaN == <<>>

IsNaN(cell) == cell = <<>>

\* cell >= n as pandas compares: False on NaN
CellGe(cell, n) == ~IsNaN(cell) /\ cell[1] >= n

Columns(frame) == IF frame = <<>> THEN {} ELSE DOMAIN frame[1]

\* 'Name' of the season totals: a string is the sequence of its characters
NameOf(i) ==
    CASE i = 1 -> <<"A", "b">>
      [] i = 2 -> <<"J", ".", "b">>
      [] OTHER -> <<"J", "a", "b">>

\* the splits of the season-totals response: n players
SeasonTotals(n) == [i \in 1..n |-> [playerid |-> i, Name |-> NameOf(i)]]

\* game logs the provider may answer a sampled player's request with
BoardLogs ==
    { LongLog(<<>>), LongLog(<<1, 1>>), LongLog(<<1, 1, 0, 1>>) }

\* one sampled player's request: failed (exception, timeout, status other
\* than 200) or answered with a log
FetchOutcomes ==
    {[ok |-> FALSE, log |-> <<>>]} \cup {[ok |-> TRUE, log |-> l] : l \in BoardLogs}

\* the ids of top_hitters['playerid'].tolist(), as a list
IdList(ids, n) == SelectSeq([i \in 1..n |-> i], LAMBDA i : i \in ids)

StreakColumns == {"Games_With_Hit", "Current_Streak", "Max_Hit_Streak"}

\* pd.merge(df, streaks, on='playerid', how='left'), streaks not empty: the
\* rows of df in their order, NaN in the columns of streaks where no record
\* matches
MergeLeft(df, streaks) ==
    [i \in 1..Len(df) |->
        LET m == {k \in 1..Len(streaks) : streaks[k].playerid = df[i].playerid}
        IN  df[i] @@
            [c \in DOMAIN streaks[1] \ {"playerid"} |->
                IF m = {} THEN NaN ELSE Num(streaks[CHOOSE k \in m : TRUE][c])]]

\* the keys of the dict handed to fillna
FilledColumns(v) ==
    IF v = "leaderboard" THEN StreakColumns \cup {"Last_15"} ELSE StreakColumns

\* merged_df.fillna({...: 0})
FillNa(v, frame) ==
    [i \in 1..Len(frame) |->
        [c \in DOMAIN frame[i] |->
            IF c \in FilledColumns(v) /\ IsNaN(frame[i][c])
            THEN Num(0) ELSE frame[i][c]]]

\* the column each script ranks by
RankColumn(v) == IF v = "leaderboard" THEN "Last_15" ELSE "Current_Streak"

\* a before b is in order for ascending=False, NaN last
InOrderDesc(a, b) == IsNaN(b) \/ (~IsNaN(a) /\ a[1] >= b[1])

IsSortedDesc(frame, col) ==
    \A i, j \in 1..Len(frame) : i < j => InOrderDesc(frame[i][col], frame[j][col])

RowOrders(n) ==
    {p \in [1..n -> 1..n] : \A i, j \in 1..n : i # j => p[i] # p[j]}

\* frame.sort_values(col, ascending=False): quicksort, so rows with equal
\* keys come out in any order
SortValues(frame, col) ==
    {s \in {[i \in 1..Len(frame) |-> frame[p[i]]] : p \in RowOrders(Len(frame))} :
        IsSortedDesc(s, col)}

\* frame.to_json(cache_file): per column, the cells in row order
ToJson(frame) ==
    [c \in Columns(frame) |-> [i \in 1..Len(frame) |-> frame[i][c]]]

\* pd.read_json(cache_file): the rows in the order of the document
ReadJson(doc) ==
    IF DOMAIN doc = {} THEN <<>>
    ELSE LET n == Len(doc[CHOOSE c \in DOMAIN doc : TRUE])
         IN  [i \in 1..n |-> [c \in DOMAIN doc |-> doc[c][i]]]

\* The body of "if response.status_code == 200:" up to the sort.  The
\* outcome is the set of frames merged_df may be, or raises: an empty table
\* has no column 'H' to sort by, and the merge finds no column 'playerid' in
\* the DataFrame of an empty list of records.
BuildRaises(v, df, sampled, outs) ==
    \/ df = <<>>
    \/ FetchHitStreaks(v, IdList(sampled, Len(df)), outs) = <<>>

BuildMerged(v, df, sampled, outs) ==
    SortValues(
        FillNa(v, MergeLeft(df, FetchHitStreaks(v, IdList(sampled, Len(df)), outs))),
        RankColumn(v))

\* generate_demo_data(): random statistics for a fixed list of players,
\* sorted by the ranking column
DemoRows(v) ==
    IF v = "leaderboard"
    THEN {[Games_With_Hit |-> Num(s), Current_Streak |-> Num(s),
           Max_Hit_Streak |-> Num(s), Last_15 |-> Num(w)] :
             <<s, w>> \in {<<0, 5>>, <<3, 13>>}}
    ELSE {[Games_With_Hit |-> Num(s), Current_Streak |-> Num(s),
           Max_Hit_Streak |-> Num(s)] : s \in {0, 3}}

\* generate_demo_data() returning a frame without rows
DemoFramesEmpty(v) == {<<>>}

DemoFrames(v) ==
    UNION { SortValues([i \in 1..MaxPlayers |-> SeasonTotals(MaxPlayers)[i] @@ st[i]],
                       RankColumn(v)) :
              st \in [1..MaxPlayers -> DemoRows(v)] }

\* whether generate_demo_data() can raise: in simple_streaks_links it uses
\* random before the function's own "import random" binds it (always); in
\* hitstreak_leaderboard random.randint(max(5, s), min(15, s + 10)) has an
\* empty range for a streak s > 15 (sometimes)
DemoCanRaise(v) == v \in {"leaderboard", "links"}

DemoCanReturn(v) == v \in {"leaderboard", "cached"}

-----------------------------------------------------------------------------
(* The state a session starts from                                         *)

None == [none |-> TRUE, df |-> <<>>, demo |-> FALSE]

Some(frame) == [none |-> FALSE, df |-> frame, demo |-> FALSE]

\* a frame made by generate_demo_data(); "demo" is the history of the
\* frame, not a column of it
Synthetic(frame) == [none |-> FALSE, df |-> frame, demo |-> TRUE]

NoFile == [exists |-> FALSE, fresh |-> FALSE, json |-> <<>>]

NoBuild ==
    [status |-> "none", df |-> <<>>, sampled |-> {}, outcome |-> <<>>,
     merged |-> <<>>]

NoQuery == [min |-> 0, search |-> <<>>, watch |-> {}]

NothingShown == [status |-> "none", rows |-> <<>>, demo_info |-> FALSE]

BoardIdle ==
    /\ cache_file = NoFile
    /\ session = [streak_data |-> None, data_loaded |-> FALSE,
                  is_refreshing |-> FALSE, using_cached |-> FALSE]
    /\ data_source = "MLB Data"
    /\ streak_data = None
    /\ build = NoBuild
    /\ query = NoQuery
    /\ shown = NothingShown

\* the cache protocol at rest (its model follows the leaderboard scripts)
\* the cache file: age is time.time() - os.path.getmtime(cache_file), kept
\* up to the freshness window (older files are all treated alike); torn is
\* a file opened for writing whose content is not written yet
NoDisk == [exists |-> FALSE, age |-> 0, data |-> "", torn |-> FALSE]

\* api_call_reset_time - time.time(): not yet in the session state, or the
\* seconds left (below zero once the time has come)
NoReset == [set |-> FALSE, left |-> 0]

\* what a call did: kind is what it returned, requested whether it sent an
\* HTTP request, found and age the cache file as it was when the call
\* started, torn_read whether it read a file that was being written
NoResult ==
    [kind |-> "none", data |-> "", requested |-> FALSE, found |-> FALSE,
     age |-> 0, torn_read |-> FALSE]

\* st.session_state.matchup_data: None, or a list
NoMatchups == [none |-> TRUE, list |-> <<>>]

Matchups(ms) == [none |-> FALSE, list |-> ms]

\* "selected_game_date" not in st.session_state
NoDate == [kind |-> "unset", day |-> 0, tick |-> 0]

\* the stats of empty_result
EmptyStats ==
    [AB |-> <<"0">>, H |-> <<"0">>, HR |-> <<"0">>,
     AVG |-> <<"0", ".", "0", "0", "0">>]

\* a key that is not in st.session_state.matchup_cache
Absent == [kind |-> "absent", stats |-> EmptyStats]

Batters == 1..MaxMatchups

Pitchers == {1, 2}

\* matchup_cache = {}: the entries "batter_<id>" and "<batter>_<pitcher>"
NoCache ==
    [batter |-> [b \in Batters |-> Absent],
     pair |-> [b \in Batters |-> [p \in Pitchers |-> Absent]]]

NoCalls == [b \in Batters |-> [calls |-> 0, fetches |-> 0]]

PageIdle ==
    /\ stats_in = <<>>
    /\ matchup_ix = 0
    /\ all_matchups = <<>>
    /\ matchup_data = NoMatchups
    /\ filtered_matchups = <<>>
    /\ matchup_pc = "idle"
    /\ selected_game_date = NoDate
    /\ game_date = NoDate
    /\ game_count = 0
    /\ game_ix = 0
    /\ roster_games = 0
    /\ matchup_cache = NoCache
    /\ asked = NoCalls

ApiIdle ==
    /\ fetcher = "streaks"
    /\ api_key = TRUE
    /\ endpoint = "getMLBTeams"
    /\ disk = NoDisk
    /\ api_call_count = 0
    /\ api_call_reset = NoReset
    /\ depth = 0
    /\ sent = {}
    /\ api_pc = "idle"
    /\ result = NoResult
    /\ PageIdle

\* requests.get answers 200 with a game log: extract, then "if games:" sort
RequestGameLog ==
    /\ pc = "request"
    /\ \E log \in GameLogs :
        /\ game_data' = log
        /\ games' = SortedByDate(ExtractGames(log))
        /\ pc' = IF log = <<>> THEN "done" ELSE "scan"
    /\ idx' = 0
    /\ streak' = 0
    /\ max_streak' = 0
    /\ games_with_hit' = 0
    /\ UNCHANGED <<variant, matchupVars, player_id, all_streak_data, boardVars>>

\* timeout, connection error or a status other than 200: nothing is appended
RequestFails ==
    /\ pc = "request"
    /\ pc' = "done"
    /\ UNCHANGED <<variant, matchupVars, scanVars, boardVars>>

\* one iteration of "for game in games"
ScanStep ==
    /\ pc = "scan"
    /\ idx < Len(games)
    /\ LET c == ScanGame([streak |-> streak, max_streak |-> max_streak,
                          games_with_hit |-> games_with_hit], games[idx + 1])
       IN  /\ streak' = c.streak
           /\ max_streak' = c.max_streak
           /\ games_with_hit' = c.games_with_hit
    /\ idx' = idx + 1
    /\ UNCHANGED <<variant, matchupVars, pc, game_data, games, player_id, all_streak_data,
                   boardVars>>

\* current_streak = streak; the trailing window; all_streak_data.append
AppendRecord ==
    /\ pc = "scan"
    /\ idx = Len(games)
    /\ all_streak_data' =
          Append(all_streak_data,
                 StreakRecord(variant, player_id, games_with_hit, streak,
                              max_streak, games))
    /\ pc' = "done"
    /\ UNCHANGED <<variant, matchupVars, game_data, games, idx, streak, max_streak,
                   games_with_hit, player_id, boardVars>>

\* the locals of fetch_hit_streaks before the loop
ScanIdle ==
    /\ game_data = <<>>
    /\ games = <<>>
    /\ idx = 0
    /\ streak = 0
    /\ max_streak = 0
    /\ games_with_hit = 0
    /\ all_streak_data = <<>>

Init ==
    /\ variant \in Variants
    /\ pc = "request"
    /\ ScanIdle
    /\ player_id \in PlayerIds
    /\ BoardIdle
    /\ ApiIdle

Next ==
    \/ RequestGameLog
    \/ RequestFails
    \/ ScanStep
    \/ AppendRecord

Spec == Init /\ [][Next]_vars

-----------------------------------------------------------------------------
(* The leaderboard scripts: one run of a script is a load step and a       *)
(* display step                                                            *)

\* highest value of the "minimum" sliders the model moves them to (of 15)
MaxThreshold == 2

DataSources == {"MLB Data", "Demo Data"}

\* st.text_input "Search for a player by name"
SearchTerms == { <<>>, <<"a", "B">>, <<".">> }

\* options of the "Players to Watch" multiselect: a player of the season
\* totals and one who is not in them
WatchOptions == { NameOf(1), <<"Z">> }

Lower(ch) ==
    CASE ch = "A" -> "a" [] ch = "B" -> "b" [] ch = "J" -> "j"
      [] ch = "Z" -> "z" [] OTHER -> ch

\* str.lower()
LowerStr(str) == [i \in 1..Len(str) |-> Lower(str[i])]

\* the term found in the string character for character
PlainContains(str, term) ==
    \E p \in 0..(Len(str) - Len(term)) :
        \A k \in 1..Len(term) : term[k] = str[p + k]

\* Series.str.contains(term): regex=True is the default, re.search: the
\* character "." of the term stands for any character
StrContains(str, term) ==
    \E p \in 0..(Len(str) - Len(term)) :
        \A k \in 1..Len(term) : term[k] = "." \/ term[k] = str[p + k]

\* int(x * 1.5) and int(x * 0.3) on a count, capped at 15
Last15FromLast10(cell) == Num(Min((3 * (IF IsNaN(cell) THEN 0 ELSE cell[1])) \div 2, LAST_15_WINDOW))

Last15FromGames(cell) == Num(Min((3 * (IF IsNaN(cell) THEN 0 ELSE cell[1])) \div 10, LAST_15_WINDOW))

\* "if 'Last_15' not in streak_data.columns": the column is added to the
\* frame itself
EnsureLast15(frame) ==
    IF "Last_15" \in Columns(frame) THEN frame
    ELSE [i \in 1..Len(frame) |->
            frame[i] @@
            ("Last_15" :>
                IF "Last_10" \in Columns(frame)
                  THEN Last15FromLast10(frame[i].Last_10)
                ELSE IF "Games_With_Hit" \in Columns(frame)
                  THEN Last15FromGames(frame[i].Games_With_Hit)
                ELSE Num(0))]

\* hitstreak_leaderboard: threshold, then the search or else the watch list
FilterLeaderboard(frame, min, search, watch) ==
    LET passing == SelectSeq(frame, LAMBDA row : CellGe(row.Last_15, min))
    IN  IF search # <<>>
        THEN SelectSeq(passing,
                 LAMBDA row : StrContains(LowerStr(row.Name), LowerStr(search)))
        ELSE IF watch # {}
        THEN SelectSeq(passing, LAMBDA row : row.Name \in watch)
        ELSE passing

\* simple_streaks_links, simple_streaks_cached: Current_Streak >= min_streak
FilterStreaks(frame, min) ==
    SelectSeq(frame, LAMBDA row : CellGe(row.Current_Streak, min))

\* an empty filter result reported as missing data
TableOrNoData(rows) ==
    IF rows = <<>>
    THEN [status |-> "no_data", rows |-> <<>>, demo_info |-> FALSE]
    ELSE [status |-> "table", rows |-> rows, demo_info |-> FALSE]

Table(rows) ==
    IF rows = <<>>
    THEN [status |-> "no_match", rows |-> <<>>, demo_info |-> FALSE]
    ELSE [status |-> "table", rows |-> rows, demo_info |-> FALSE]

NoData == [status |-> "no_data", rows |-> <<>>, demo_info |-> FALSE]

\* an exception no handler catches: Streamlit shows it, the run is over
Crashed == [status |-> "error", rows |-> <<>>, demo_info |-> FALSE]

Written(frame) == [exists |-> TRUE, fresh |-> TRUE, json |-> ToJson(frame)]

\* Another session of one of the three scripts builds its leaderboard and
\* saves it: all write mlb_streak_cache/current_streaks.json.  (Here: before
\* the session under study starts.)
OtherSessionSaves ==
    /\ pc = "start"
    /\ \E w \in Variants, n \in 1..MaxPlayers :
         \E sampled \in SUBSET (1..n) :
           \E outs \in [sampled -> FetchOutcomes] :
             /\ ~BuildRaises(w, SeasonTotals(n), sampled, outs)
             /\ \E m \in BuildMerged(w, SeasonTotals(n), sampled, outs) :
                  cache_file' = Written(m)
    /\ pc' = "idle"
    /\ UNCHANGED <<variant, matchupVars, scanVars, session, data_source, streak_data,
                   build, query, shown>>

\* the session starts with the cache directory as it is
SessionStarts ==
    /\ pc = "start"
    /\ pc' = "idle"
    /\ UNCHANGED <<variant, matchupVars, scanVars, boardVars>>

\* the file gets cache_time = 3600 seconds old
CacheExpires ==
    /\ pc = "idle"
    /\ cache_file.exists
    /\ cache_file.fresh
    /\ cache_file' = [cache_file EXCEPT !.fresh = FALSE]
    /\ UNCHANGED <<variant, matchupVars, pc, scanVars, session, data_source, streak_data,
                   build, query, shown>>

\* what the run hands to the display step
Loaded(src, data, b, info) ==
    /\ data_source' = src
    /\ streak_data' = data
    /\ build' = b
    /\ query' = NoQuery
    /\ shown' = [NothingShown EXCEPT !.demo_info = info]
    /\ pc' = "display"
    /\ UNCHANGED <<variant, matchupVars, scanVars>>

\* the run ends in an exception
Raised(src, b) ==
    /\ data_source' = src
    /\ streak_data' = None
    /\ build' = b
    /\ query' = NoQuery
    /\ shown' = Crashed
    /\ pc' = "idle"
    /\ UNCHANGED <<variant, matchupVars, scanVars>>

\* "Refresh Data": st.session_state.streak_data = None, then the rerun
PressRefresh ==
    /\ pc = "idle"
    /\ variant \in {"leaderboard", "links"}
    /\ ~session.streak_data.none
    /\ session' = [session EXCEPT !.streak_data = None]
    /\ UNCHANGED <<variant, matchupVars, pc, scanVars, cache_file, data_source,
                   streak_data, build, query, shown>>

\* "MLB Data" with data in the session: no fetch
UseSessionData ==
    /\ pc = "idle"
    /\ variant \in {"leaderboard", "links"}
    /\ ~session.streak_data.none
    /\ Loaded("MLB Data", session.streak_data, NoBuild, FALSE)
    /\ UNCHANGED <<cache_file, session>>

CacheIsFresh == cache_file.exists /\ cache_file.fresh

\* fetch_mlb_hit_streaks: the cache file is younger than cache_time
FetchCacheHit ==
    /\ pc = "idle"
    /\ variant \in {"leaderboard", "links"}
    /\ session.streak_data.none
    /\ CacheIsFresh
    /\ Loaded("MLB Data", Some(ReadJson(cache_file.json)),
              [NoBuild EXCEPT !.status = "cache"], FALSE)
    /\ session' = [session EXCEPT !.streak_data = Some(ReadJson(cache_file.json))]
    /\ UNCHANGED cache_file

\* fetch_mlb_hit_streaks: status 200, the table built, merged, sorted, saved
FetchLive ==
    /\ pc = "idle"
    /\ variant \in {"leaderboard", "links"}
    /\ session.streak_data.none
    /\ ~CacheIsFresh
    /\ \E n \in 0..MaxPlayers :
         \E sampled \in SUBSET (1..n) :
           \E outs \in [sampled -> FetchOutcomes] :
             /\ ~BuildRaises(variant, SeasonTotals(n), sampled, outs)
             /\ \E m \in BuildMerged(variant, SeasonTotals(n), sampled, outs) :
                  /\ cache_file' = Written(m)
                  /\ session' = [session EXCEPT !.streak_data = Some(m)]
                  /\ Loaded("MLB Data", Some(m),
                            [status |-> "ok", df |-> SeasonTotals(n),
                             sampled |-> sampled, outcome |-> outs,
                             merged |-> m], FALSE)

\* what the request of the season totals came to when no table was built:
\* another status or an exception of requests.get, or an exception while
\* the table was built
FailedBuilds(v) ==
    {[NoBuild EXCEPT !.status = "http_error"]} \cup
    {[status |-> "raised", df |-> SeasonTotals(n), sampled |-> sampled,
      outcome |-> outs, merged |-> <<>>] :
        n \in 0..MaxPlayers, sampled \in SUBSET PlayerIds,
        outs \in UNION {[s -> FetchOutcomes] : s \in SUBSET PlayerIds}}

RealFailedBuilds(v) ==
    {b \in FailedBuilds(v) :
        b.status = "raised" =>
            /\ b.sampled \subseteq 1..Len(b.df)
            /\ DOMAIN b.outcome = b.sampled
            /\ BuildRaises(v, b.df, b.sampled, b.outcome)}

\* fetch_mlb_hit_streaks: the else branch and the except branch, with a
\* cache file: pd.read_json(cache_file) whatever its age
FetchFallbackCache ==
    /\ pc = "idle"
    /\ variant \in {"leaderboard", "links"}
    /\ session.streak_data.none
    /\ ~CacheIsFresh
    /\ cache_file.exists
    /\ \E b \in RealFailedBuilds(variant) :
         Loaded("MLB Data", Some(ReadJson(cache_file.json)), b, FALSE)
    /\ session' = [session EXCEPT !.streak_data = Some(ReadJson(cache_file.json))]
    /\ UNCHANGED cache_file

\* the same without a cache file: generate_demo_data() returns
FetchFallbackDemo ==
    /\ pc = "idle"
    /\ variant \in {"leaderboard", "links"}
    /\ session.streak_data.none
    /\ ~cache_file.exists
    /\ DemoCanReturn(variant)
    /\ \E b \in RealFailedBuilds(variant), d \in DemoFrames(variant) :
         /\ Loaded("MLB Data", Synthetic(d), b, TRUE)
         /\ session' = [session EXCEPT !.streak_data = Synthetic(d)]
    /\ UNCHANGED cache_file

\* the same, generate_demo_data() raising inside the handler
FetchFallbackRaises ==
    /\ pc = "idle"
    /\ variant \in {"leaderboard", "links"}
    /\ session.streak_data.none
    /\ ~cache_file.exists
    /\ DemoCanRaise(variant)
    /\ \E b \in RealFailedBuilds(variant) : Raised("MLB Data", b)
    /\ UNCHANGED <<cache_file, session>>

\* "Demo Data": streak_data = generate_demo_data()
UseDemoData ==
    /\ pc = "idle"
    /\ variant \in {"leaderboard", "links"}
    /\ \/ /\ DemoCanReturn(variant)
          /\ \E d \in DemoFrames(variant) : Loaded("Demo Data", Synthetic(d), NoBuild, TRUE)
       \/ /\ DemoCanRaise(variant)
          /\ Raised("Demo Data", NoBuild)
    /\ UNCHANGED <<cache_file, session>>

\* simple_streaks_cached, top of a run: the startup load (once per session:
\* the cache file whatever its age, else demo data), the data source radio
\* and the "Refresh MLB Data" button
StartedSessions ==
    IF session.data_loaded THEN {session}
    ELSE IF cache_file.exists
    THEN {[session EXCEPT !.streak_data = Some(ReadJson(cache_file.json)),
                          !.data_loaded = TRUE,
                          !.using_cached = TRUE]}
    ELSE {[session EXCEPT !.streak_data = Synthetic(d),
                          !.data_loaded = TRUE,
                          !.using_cached = FALSE] : d \in DemoFrames("cached")}

CachedBeginRun ==
    /\ pc = "idle"
    /\ variant = "cached"
    /\ \E src \in DataSources, pressed \in BOOLEAN, s \in StartedSessions :
         /\ data_source' = src
         /\ session' = [s EXCEPT !.is_refreshing = s.is_refreshing \/ pressed]
    /\ streak_data' = None
    /\ build' = NoBuild
    /\ query' = NoQuery
    /\ shown' = [NothingShown EXCEPT
                    !.demo_info = ~session.data_loaded /\ ~cache_file.exists]
    /\ pc' = "loaded"
    /\ UNCHANGED <<variant, matchupVars, scanVars, cache_file>>

\* the session written whatever fetch_mlb_data() returned
RefreshedAnyway(s, new_data) ==
    [s EXCEPT !.streak_data = new_data,
              !.using_cached = TRUE,
              !.is_refreshing = FALSE]

\* the session after the refresh block: "if new_data is not None" the table
\* is stored and using_cached set; in both branches the flag is reset
Refreshed(s, new_data) ==
    IF new_data.none
    THEN [s EXCEPT !.is_refreshing = FALSE]
    ELSE [s EXCEPT !.streak_data = new_data,
                   !.using_cached = TRUE,
                   !.is_refreshing = FALSE]

\* "if st.session_state.is_refreshing and data_source == 'MLB Data'":
\* fetch_mlb_data() returns the table; the flag is reset, the script reruns
CachedRefreshOk ==
    /\ pc = "loaded"
    /\ session.is_refreshing
    /\ data_source = "MLB Data"
    /\ \E n \in 0..MaxPlayers :
         \E sampled \in SUBSET (1..n) :
           \E outs \in [sampled -> FetchOutcomes] :
             /\ ~BuildRaises("cached", SeasonTotals(n), sampled, outs)
             /\ \E m \in BuildMerged("cached", SeasonTotals(n), sampled, outs) :
                  /\ cache_file' = Written(m)
                  /\ session' = Refreshed(session, Some(m))
                  /\ build' = [status |-> "ok", df |-> SeasonTotals(n),
                               sampled |-> sampled, outcome |-> outs,
                               merged |-> m]
    /\ shown' = NothingShown
    /\ UNCHANGED <<variant, matchupVars, pc, scanVars, data_source, streak_data, query>>

\* the same, fetch_mlb_data() returning None: the previous data stay; the
\* rerun starts the page anew
CachedRefreshFails ==
    /\ pc = "loaded"
    /\ session.is_refreshing
    /\ data_source = "MLB Data"
    /\ \E b \in RealFailedBuilds("cached") : build' = b
    /\ session' = Refreshed(session, None)
    /\ shown' = NothingShown
    /\ UNCHANGED <<variant, matchupVars, pc, scanVars, cache_file, data_source,
                   streak_data, query>>

\* no refresh in this run: "if data_source == 'Demo Data'" replaces the
\* session's data by demo data; streak_data = st.session_state.streak_data
CachedSelectData ==
    /\ pc = "loaded"
    /\ ~(session.is_refreshing /\ data_source = "MLB Data")
    /\ \E s \in (IF data_source = "Demo Data"
                 THEN {[session EXCEPT !.streak_data = Synthetic(d),
                                       !.using_cached = FALSE] :
                          d \in DemoFrames("cached")}
                 ELSE {session}) :
         /\ session' = s
         /\ streak_data' = s.streak_data
    /\ shown' = [shown EXCEPT !.demo_info = @ \/ data_source = "Demo Data"]
    /\ pc' = "display"
    /\ UNCHANGED <<variant, matchupVars, scanVars, cache_file, data_source, build, query>>

\* once the page is rendered only the outcome of the run's request is kept,
\* not the responses
Outcome(b) == [NoBuild EXCEPT !.status = b.status]

\* the table or message joins what the run has put on the page so far
Render(page) == [page EXCEPT !.demo_info = shown.demo_info]

HasData(data) == ~data.none /\ data.df # <<>>

\* hitstreak_leaderboard, "Process and display data"
DisplayLeaderboard ==
    /\ pc = "display"
    /\ variant = "leaderboard"
    /\ \E min \in 1..MaxThreshold, search \in SearchTerms,
          watch \in SUBSET WatchOptions :
         /\ query' = [min |-> min, search |-> search, watch |-> watch]
         /\ IF HasData(streak_data)
            THEN LET frame == EnsureLast15(streak_data.df)
                 IN  /\ streak_data' = [streak_data EXCEPT !.df = frame]
                     /\ session' = IF data_source = "MLB Data"
                                   THEN [session EXCEPT !.streak_data.df = frame]
                                   ELSE session
                     /\ \E rows \in SortValues(
                               FilterLeaderboard(frame, min, search, watch),
                               "Last_15") :
                          shown' = Render(Table(rows))
            ELSE /\ shown' = Render(NoData)
                 /\ UNCHANGED <<streak_data, session>>
    /\ build' = Outcome(build)
    /\ pc' = "idle"
    /\ UNCHANGED <<variant, matchupVars, scanVars, cache_file, data_source>>

\* the minimum of the "Minimum Streak Length" slider
MinStreakFrom(v) == IF v = "links" THEN 0 ELSE 1

\* simple_streaks_links and simple_streaks_cached, "Process and display
\* data": the rows that pass the threshold, in the order of the frame
DisplayStreaks ==
    /\ pc = "display"
    /\ variant \in {"links", "cached"}
    /\ \E min \in MinStreakFrom(variant)..MaxThreshold :
         /\ query' = [NoQuery EXCEPT !.min = min]
         /\ shown' = IF HasData(streak_data)
                     THEN Render(Table(FilterStreaks(streak_data.df, min)))
                     ELSE Render(NoData)
    /\ build' = Outcome(build)
    /\ pc' = "idle"
    /\ UNCHANGED <<variant, matchupVars, scanVars, cache_file, session, data_source,
                   streak_data>>

InitBoard ==
    /\ variant \in Variants
    /\ pc = "start"
    /\ ScanIdle
    /\ player_id = 1
    /\ BoardIdle
    /\ ApiIdle

NextBoard ==
    \/ OtherSessionSaves
    \/ SessionStarts
    \/ CacheExpires
    \/ PressRefresh
    \/ UseSessionData
    \/ FetchCacheHit
    \/ FetchLive
    \/ FetchFallbackCache
    \/ FetchFallbackDemo
    \/ FetchFallbackRaises
    \/ UseDemoData
    \/ CachedBeginRun
    \/ CachedRefreshOk
    \/ CachedRefreshFails
    \/ CachedSelectData
    \/ DisplayLeaderboard
    \/ DisplayStreaks

SpecBoard == InitBoard /\ [][NextBoard]_vars

-----------------------------------------------------------------------------
(* The cache files in time: fetch_mlb_hit_streaks of hitstreak_leaderboard *)
(* ("streaks") and fetch_from_rapidapi of matchup_leaderboard              *)
(* ("rapidapi"), one call followed step by step: the freshness check, the  *)
(* read of the file, the request.  Another session of the same script may  *)
(* write the same file meanwhile.                                          *)

\* cache_time of fetch_mlb_hit_streaks, in seconds
CACHE_TIME == 3600

\* "(6 * 3600)" of fetch_from_rapidapi
SIX_HOURS == 6 * 3600

\* time.time() + 60, time.sleep(60)
ONE_MINUTE == 60

MAX_CALLS_PER_MINUTE == 18

\* "20 calls per minute for Basic plan"
PLAN_LIMIT == 20

\* nested calls the interpreter allows before it raises RecursionError
\* (sys.getrecursionlimit(), scaled down)
MaxDepth == 2

Fetchers == {"streaks", "rapidapi"}

Window(f) == IF f = "streaks" THEN CACHE_TIME ELSE SIX_HOURS

critical_endpoints == {"getMLBTeams", "getMLBGamesForDate"}

Endpoints == {"getMLBTeams", "getMLBBatterVsPitcher"}

\* bodies of a 200 response
Payloads == {"p1", "p2"}

WrittenFile(p) == [exists |-> TRUE, age |-> 0, data |-> p, torn |-> FALSE]

OpenedFile == [exists |-> TRUE, age |-> 0, data |-> "", torn |-> TRUE]

\* the file d seconds later; one that is being written was modified just now
Aged(file, d) ==
    IF file.exists /\ ~file.torn
    THEN [file EXCEPT !.age = Min(@ + d, Window(fetcher))]
    ELSE file

NewReset == [set |-> TRUE, left |-> ONE_MINUTE]

ResetAfter(r, d) ==
    IF r.set THEN [r EXCEPT !.left = Max(@ - d, 0 - 1)] ELSE r

\* the file taken for fresh whatever its age
IsFreshAnyAge(file) == file.exists

IsFresh(file) == file.exists /\ file.age < Window(fetcher)

\* the requests of the last minute after d more seconds
Elapse(s, d) ==
    {[age |-> e.age + d, n |-> e.n] : e \in {x \in s : x.age + d < ONE_MINUTE}}

\* ... and after one more request, sent now
Requested(s) ==
    IF \E e \in s : e.age = 0
    THEN {IF e.age = 0 THEN [e EXCEPT !.n = @ + 1] ELSE e : e \in s}
    ELSE s \cup {[age |-> 0, n |-> 1]}

apiFrame ==
    <<variant, pc, scanVars, boardVars, fetcher, api_key, endpoint, procVars>>

\* time passes between two calls
ApiTimePasses ==
    /\ api_pc = "idle"
    /\ IsFresh(disk) \/ (api_call_reset.set /\ api_call_reset.left >= 0)
    /\ disk' = Aged(disk, Window(fetcher) - ONE_MINUTE)
    /\ api_call_reset' = ResetAfter(api_call_reset, Window(fetcher) - ONE_MINUTE)
    /\ sent' = Elapse(sent, Window(fetcher) - ONE_MINUTE)
    /\ UNCHANGED <<apiFrame, api_call_count, depth, api_pc, result>>

\* another session's successful fetch opens the file for writing
\* (open(cache_file, 'w'), to_json(cache_file)) ...
OtherBeginsWrite ==
    /\ fetcher = "rapidapi" => api_key
    /\ ~disk.torn
    /\ disk' = OpenedFile
    /\ UNCHANGED <<apiFrame, api_call_count, api_call_reset, depth, sent, api_pc,
                   result>>

\* ... and writes the payload
OtherEndsWrite ==
    /\ disk.torn
    /\ \E p \in Payloads : disk' = WrittenFile(p)
    /\ UNCHANGED <<apiFrame, api_call_count, api_call_reset, depth, sent, api_pc,
                   result>>

\* the call starts (or starts again after a 429): the key test of
\* fetch_from_rapidapi, then os.path.exists and the age test
FetchStart ==
    /\ api_pc \in {"idle", "retry"}
    /\ IF fetcher = "rapidapi" /\ ~api_key
       THEN /\ result' = [NoResult EXCEPT !.kind = "no_key",
                                          !.found = disk.exists,
                                          !.age = disk.age]
            /\ api_pc' = "idle"
       ELSE /\ result' = [NoResult EXCEPT !.kind = "pending",
                                          !.found = disk.exists,
                                          !.age = disk.age]
            /\ api_pc' = IF IsFresh(disk) THEN "read" ELSE "request"
    /\ UNCHANGED <<apiFrame, disk, api_call_count, api_call_reset, depth, sent>>

\* json.load(f), pd.read_json(cache_file): the content is returned; the
\* exception of an incomplete file is caught and the call goes on to the
\* request
FetchRead ==
    /\ api_pc = "read"
    /\ IF disk.torn
       THEN /\ result' = [result EXCEPT !.torn_read = TRUE]
            /\ depth' = depth
            /\ api_pc' = "request"
       ELSE /\ result' = [result EXCEPT !.kind = "cache", !.data = disk.data]
            /\ depth' = 0
            /\ api_pc' = "idle"
    /\ UNCHANGED <<apiFrame, disk, api_call_count, api_call_reset, sent>>

\* which answers of the provider are saved to the cache file: every one
SavesAny(status) == TRUE

\* "if response.status_code == 200:" ... json.dump(data, f), to_json
Saves(status) == status = "200"

\* answers of the provider: a 200, another status, an exception or timeout
Answers == {"200", "500", "exception"}

\* fetch_mlb_hit_streaks from "try:" on: the request; on a 200 the table is
\* saved and returned, otherwise the cache file is read whatever its age
\* (an incomplete file raises inside the handler), and without a file
\* generate_demo_data() returns or raises
StreaksRequest ==
    /\ api_pc = "request"
    /\ fetcher = "streaks"
    /\ \E status \in Answers, p \in Payloads, demo_raises \in BOOLEAN :
         /\ disk' = IF Saves(status) THEN WrittenFile(p) ELSE disk
         /\ result' =
              [result EXCEPT
                 !.requested = TRUE,
                 !.kind = IF status = "200" THEN "live"
                          ELSE IF disk.exists
                          THEN (IF disk.torn THEN "raised" ELSE "fallback")
                          ELSE (IF demo_raises THEN "raised" ELSE "demo"),
                 !.data = IF status = "200" THEN p
                          ELSE IF disk.exists /\ ~disk.torn THEN disk.data
                          ELSE "",
                 !.torn_read = @ \/ (status # "200" /\ disk.torn)]
    /\ api_pc' = "idle"
    /\ UNCHANGED <<apiFrame, api_call_count, api_call_reset, depth, sent>>

\* fetch_from_rapidapi, "Rate limiting": the counter as it stands after the
\* initialisation and the reset test
Counted ==
    IF ~api_call_reset.set \/ api_call_reset.left < 0
    THEN 0 ELSE api_call_count

ResetDue ==
    IF ~api_call_reset.set \/ api_call_reset.left < 0
    THEN NewReset ELSE api_call_reset

\* the limit test with > for >=
OverLimitLate == Counted > MAX_CALLS_PER_MINUTE

\* "if st.session_state.api_call_count >= MAX_CALLS_PER_MINUTE"
OverLimit == Counted >= MAX_CALLS_PER_MINUTE

\* a critical endpoint waits for the reset and starts counting anew
Waits == OverLimit /\ endpoint \in critical_endpoints

SleepTime == IF Waits /\ ResetDue.left > 0 THEN ResetDue.left ELSE 0

\* over the limit on another endpoint: None, no request
RapidRefused ==
    /\ api_pc = "request"
    /\ fetcher = "rapidapi"
    /\ OverLimit
    /\ endpoint \notin critical_endpoints
    /\ api_call_count' = Counted
    /\ api_call_reset' = ResetDue
    /\ result' = [result EXCEPT !.kind = "rate_limited"]
    /\ depth' = 0
    /\ api_pc' = "idle"
    /\ UNCHANGED <<apiFrame, disk, sent>>

\* the request is sent: the counter goes up, a 200 is saved and returned,
\* another answer or an exception returns None
RapidRequest ==
    /\ api_pc = "request"
    /\ fetcher = "rapidapi"
    /\ OverLimit => endpoint \in critical_endpoints
    /\ \E status \in Answers, p \in Payloads :
         /\ disk' = IF Saves(status) THEN WrittenFile(p)
                    ELSE Aged(disk, SleepTime)
         /\ result' = [result EXCEPT
                          !.requested = TRUE,
                          !.kind = IF status = "200" THEN "live" ELSE "failed",
                          !.data = IF status = "200" THEN p ELSE ""]
    /\ api_call_count' = (IF Waits THEN 0 ELSE Counted) + 1
    /\ api_call_reset' = IF Waits THEN NewReset ELSE ResetDue
    /\ sent' = Requested(Elapse(sent, SleepTime))
    /\ depth' = 0
    /\ api_pc' = "idle"
    /\ UNCHANGED apiFrame

\* a nested call that stays at the same depth
DeeperNever(d) == d

\* "return fetch_from_rapidapi(endpoint, params)": one more frame
Deeper(d) == d + 1

\* the request is answered 429: time.sleep(60), the counter reset, and the
\* function calls itself; when the interpreter allows no deeper call,
\* RecursionError is raised inside the try block, "except Exception"
\* catches it and the call returns None
RapidTooManyRequests ==
    /\ api_pc = "request"
    /\ fetcher = "rapidapi"
    /\ OverLimit => endpoint \in critical_endpoints
    /\ disk' = Aged(disk, SleepTime + ONE_MINUTE)
    /\ api_call_count' = 0
    /\ api_call_reset' = NewReset
    /\ sent' = Elapse(Requested(Elapse(sent, SleepTime)), ONE_MINUTE)
    /\ IF depth < MaxDepth
       THEN /\ result' = [result EXCEPT !.requested = TRUE]
            /\ depth' = Deeper(depth)
            /\ api_pc' = "retry"
       ELSE /\ result' = [result EXCEPT !.requested = TRUE,
                                        !.kind = "too_deep"]
            /\ depth' = 0
            /\ api_pc' = "idle"
    /\ UNCHANGED apiFrame

InitApi ==
    /\ fetcher \in Fetchers
    /\ api_key \in BOOLEAN
    /\ fetcher = "streaks" => api_key
    /\ endpoint \in Endpoints
    /\ fetcher = "streaks" => endpoint = "getMLBTeams"
    /\ variant = IF fetcher = "streaks" THEN "leaderboard" ELSE "matchup"
    /\ pc = "api"
    /\ ScanIdle
    /\ player_id = 1
    /\ BoardIdle
    /\ disk \in {NoDisk, WrittenFile("p1")}
    /\ api_call_count = 0
    /\ api_call_reset = NoReset
    /\ depth = 0
    /\ sent = {}
    /\ api_pc = "idle"
    /\ result = NoResult
    /\ PageIdle

NextApi ==
    \/ ApiTimePasses
    \/ OtherBeginsWrite
    \/ OtherEndsWrite
    \/ FetchStart
    \/ FetchRead
    \/ StreaksRequest
    \/ RapidRefused
    \/ RapidRequest
    \/ RapidTooManyRequests

SpecApi == InitApi /\ [][NextApi]_vars

\* a call that has started goes on until it returns
CallGoesOn ==
    /\ api_pc # "idle"
    /\ FetchStart \/ FetchRead \/ StreaksRequest \/ RapidRefused
          \/ RapidRequest \/ RapidTooManyRequests

LiveApi == SpecApi /\ WF_vars(CallGoesOn)

\* pauses between two calls of one session, in seconds
ShortWaits == {30, 31}

\* a pause shorter than a minute between two calls
ShortWait ==
    /\ api_pc = "idle"
    /\ sent # {}
    /\ \E d \in ShortWaits :
         /\ disk' = Aged(disk, d)
         /\ api_call_reset' = ResetAfter(api_call_reset, d)
         /\ sent' = Elapse(sent, d)
    /\ UNCHANGED <<apiFrame, api_call_count, depth, api_pc, result>>

\* the next call of the session asks for something not asked before
\* (another batter, another endpoint): its cache file does not exist
OtherRequest ==
    /\ api_pc = "idle"
    /\ result.kind \notin {"none", "no_key"}
    /\ endpoint' \in Endpoints
    /\ disk' = NoDisk
    /\ UNCHANGED <<variant, pc, scanVars, boardVars, fetcher, api_key,
                   procVars, api_call_count, api_call_reset, depth, sent,
                   api_pc, result>>

InitRate ==
    /\ InitApi
    /\ fetcher = "rapidapi"
    /\ api_key
    /\ disk = NoDisk

NextRate ==
    \/ ShortWait
    \/ OtherRequest
    \/ FetchStart
    \/ FetchRead
    \/ RapidRefused
    \/ RapidRequest
    \/ RapidTooManyRequests

SpecRate == InitRate /\ [][NextRate]_vars

-----------------------------------------------------------------------------
(* The matchup page of src/matchup_leaderboard.py: process_matchup         *)
(* called pair by pair, the sort that ends process_matchups, the filter    *)
(* of the display.  A value of the provider is the sequence of its         *)
(* characters; an average is counted in thousandths.                       *)

Digits == <<"0", "1", "2", "3", "4", "5", "6", "7", "8", "9">>

DigitValue(c) == CHOOSE d \in 0..9 : Digits[d + 1] = c

IsDigits(s) == Len(s) > 0 /\ \A i \in 1..Len(s) : s[i] \in Range(Digits)

RECURSIVE DigitsValue(_)
DigitsValue(s) ==
    IF s = <<>> THEN 0
    ELSE DigitsValue(SubSeq(s, 1, Len(s) - 1)) * 10 + DigitValue(s[Len(s)])

\* int(text) raises ValueError
IntRaises(s) ==
    ~ \/ IsDigits(s)
      \/ Len(s) > 1 /\ s[1] \in {"-", "+"} /\ IsDigits(Tail(s))

\* int(text)
IntOf(s) ==
    IF s[1] = "-" THEN 0 - DigitsValue(Tail(s))
    ELSE IF s[1] = "+" THEN DigitsValue(Tail(s))
    ELSE DigitsValue(s)

DotsOf(s) == {i \in 1..Len(s) : s[i] = "."}

\* float(text) raises ValueError (texts without sign or exponent)
FloatRaises(s) ==
    ~ /\ Cardinality(DotsOf(s)) <= 1
      /\ \A i \in 1..Len(s) : s[i] \in Range(Digits) \cup {"."}
      /\ \E i \in 1..Len(s) : s[i] \in Range(Digits)

\* float(text), in thousandths
FloatOf(s) ==
    IF DotsOf(s) = {} THEN 1000 * DigitsValue(s)
    ELSE LET d == CHOOSE i \in DotsOf(s) : TRUE
             frac == SubSeq(s \o <<"0", "0", "0">>, d + 1, d + 3)
         IN  1000 * DigitsValue(SubSeq(s, 1, d - 1)) + DigitsValue(frac)

\* get_avg_float(m)
get_avg_float(m) ==
    LET avg_str == IF m.AVG # <<>> /\ m.AVG[1] = "."
                   THEN <<"0">> \o m.AVG ELSE m.AVG
    IN  IF FloatRaises(avg_str) THEN 0 ELSE FloatOf(avg_str)

\* stats with every number in place
NumericStats ==
    [AB |-> <<"7">>, H |-> <<"2">>, HR |-> <<"1">>,
     AVG |-> <<".", "2", "8", "6">>]

\* the "stats" of a pair in the provider's answer: all numbers, or a
\* placeholder for AB, H or HR
StatsValues ==
    {NumericStats} \cup
    {[NumericStats EXCEPT ![f] = <<"-">>] : f \in {"AB", "H", "HR"}}

\* what fetch_from_rapidapi returns for "getMLBBatterVsPitcher": None, a
\* body without matchups, or the batter's matchups (with pitcher 1 only)
ProviderAnswers ==
    {[kind |-> "none", stats |-> EmptyStats],
     [kind |-> "error", stats |-> EmptyStats]} \cup
    {[kind |-> "data", stats |-> st] : st \in StatsValues}

\* the batter's entry is written only for an answer that is not None
StoresData(ans) == ans.kind # "none"

\* "st.session_state.matchup_cache[batter_cache_key] = all_matchups_data"
Stores(ans) == TRUE

\* all_matchups_data of get_batter_vs_pitcher
BatterData(cache, b, ans) ==
    IF cache.batter[b].kind = "absent" THEN ans ELSE cache.batter[b]

\* the matchup found among the opponents, or empty_result
PairResult(data, p) ==
    [kind |-> "result",
     stats |-> IF data.kind = "data" /\ p = 1 THEN data.stats
               ELSE EmptyStats]

\* the dict process_matchup appends for pair number n
MatchupRecord(n, stats) ==
    [id |-> n, AB |-> IntOf(stats.AB), H |-> IntOf(stats.H),
     HR |-> IntOf(stats.HR), AVG |-> stats.AVG]

\* the try block of process_matchup leaves by ValueError
StatsRaise(stats) ==
    IntRaises(stats.AB) \/ IntRaises(stats.H) \/ IntRaises(stats.HR)

pageFrame ==
    <<variant, pc, scanVars, boardVars, fetcher, api_key, endpoint, disk,
      api_call_count, api_call_reset, depth, sent, api_pc, result>>

\* one call of process_matchup, get_batter_vs_pitcher included: the pair's
\* entry of the cache if there is one; otherwise the batter's entry, fetched
\* when it is missing, and the pair's result stored
ProcessMatchup ==
    /\ matchup_pc = "pair"
    /\ \E p \in Pitchers, ans \in ProviderAnswers :
         LET b == game_ix
             hit == matchup_cache.pair[b][p].kind # "absent"
             fetch == ~hit /\ matchup_cache.batter[b].kind = "absent"
             res == IF hit THEN matchup_cache.pair[b][p]
                    ELSE PairResult(BatterData(matchup_cache, b, ans), p)
         IN  /\ matchup_cache' =
                   IF hit THEN matchup_cache
                   ELSE [matchup_cache EXCEPT
                            !.batter[b] = IF fetch /\ Stores(ans)
                                          THEN ans ELSE @,
                            !.pair[b][p] = res]
             /\ asked' = [asked EXCEPT
                             ![b] = [calls |-> Min(@.calls + 1, 2),
                                     fetches |-> @.fetches +
                                                 (IF fetch THEN 1 ELSE 0)]]
             /\ stats_in' = Append(stats_in, [batter |-> b, pitcher |-> p,
                                              stats |-> res.stats])
             /\ all_matchups' =
                   IF StatsRaise(res.stats) THEN all_matchups
                   ELSE Append(all_matchups, MatchupRecord(b, res.stats))
    /\ matchup_ix' = matchup_ix + 1
    /\ matchup_pc' = "loop"
    /\ UNCHANGED <<pageFrame, matchup_data, filtered_matchups,
                   selected_game_date, game_date, game_count, game_ix,
                   roster_games>>

InsertByAvg(sorted, m) ==
    LET k == Cardinality({i \in 1..Len(sorted) :
                              get_avg_float(sorted[i]) >= get_avg_float(m)})
    IN  SubSeq(sorted, 1, k) \o <<m>> \o SubSeq(sorted, k + 1, Len(sorted))

RECURSIVE SortedByAvg(_)
\* sorted(all_matchups, key=get_avg_float, reverse=True)
SortedByAvg(ms) ==
    IF ms = <<>> THEN <<>>
    ELSE InsertByAvg(SortedByAvg(SubSeq(ms, 1, Len(ms) - 1)), ms[Len(ms)])

\* process_matchups ends without a return statement (the sort and its
\* return belong to process_matchup): the caller gets None
Returned(ms) == NoMatchups

\* process_matchups returns and the page stores what it got
StoreMatchups ==
    /\ matchup_pc = "loop"
    /\ game_ix = game_count
    /\ matchup_data' = Returned(all_matchups)
    /\ matchup_pc' = "display"
    /\ UNCHANGED <<pageFrame, stats_in, matchup_ix, all_matchups,
                   filtered_matchups, selected_game_date, game_date,
                   game_count, game_ix, roster_games, matchup_cache, asked>>

\* values of the "Minimum At Bats" slider (1 to 30, 6 at first)
MinAbValues == {1, 6}

\* values of the "Minimum Batting Average" slider, in thousandths
MinAvgValues == {0, 300}

RECURSIVE SelectMatchups(_, _, _)
\* the loop "for m in matchups" of the display
SelectMatchups(ms, min_ab, min_avg) ==
    IF ms = <<>> THEN <<>>
    ELSE LET m == ms[1]
             rest == SelectMatchups(Tail(ms), min_ab, min_avg)
         IN  IF m.AB >= min_ab /\ get_avg_float(m) >= min_avg
             THEN <<m>> \o rest ELSE rest

\* "if matchups:" the combined filter, and in debug mode the first matchup
\* when none passes; otherwise "No matchups found".  The run ends here and
\* the locals of process_matchups are gone.
FilterMatchups ==
    /\ matchup_pc = "display"
    /\ \E min_ab \in MinAbValues, min_avg \in MinAvgValues,
          debug_mode \in BOOLEAN :
         LET matchups == matchup_data.list
             kept == SelectMatchups(matchups, min_ab, min_avg)
         IN  filtered_matchups' =
                 IF debug_mode /\ kept = <<>> /\ matchups # <<>>
                 THEN <<matchups[1]>> ELSE kept
    /\ matchup_pc' = "shown"
    /\ stats_in' = <<>>
    /\ matchup_ix' = 0
    /\ all_matchups' = <<>>
    /\ game_count' = 0
    /\ game_ix' = 0
    /\ roster_games' = 0
    /\ UNCHANGED <<pageFrame, matchup_data, selected_game_date, game_date,
                   matchup_cache, asked>>

DateOptions == {"Today", "Tomorrow", "Custom Date"}

\* days from today that the date input is set to
CustomDays == {2}

\* datetime.now() + timedelta(days): an instant no earlier run has seen
Now(days) ==
    [kind |-> "datetime", day |-> days,
     tick |-> IF selected_game_date.kind = "datetime"
              THEN 1 - selected_game_date.tick ELSE 0]

GameDates(option) ==
    CASE option = "Today" -> {Now(0)}
      [] option = "Tomorrow" -> {Now(1)}
      [] option = "Custom Date" ->
           {[kind |-> "date", day |-> d, tick |-> 0] : d \in CustomDays}

MAX_GAMES_TO_PROCESS == 6

\* lengths of the provider's list of games
GamesCounts == {0, MaxMatchups, MAX_GAMES_TO_PROCESS + 1}

\* a run of the script down to the main content: the date stored and the
\* data cleared when it differs, the Refresh button (st.rerun()), the
\* example page without an API key, then the stored data or a new fetch
BeginRun ==
    /\ matchup_pc \in {"start", "shown", "rerun"}
    /\ \E option \in DateOptions, refresh \in BOOLEAN :
         \E date \in GameDates(option) :
           LET kept == IF selected_game_date # date
                       THEN NoMatchups ELSE matchup_data
           IN  /\ game_date' = date
               /\ selected_game_date' = date
               /\ matchup_data' = IF refresh THEN NoMatchups ELSE kept
               /\ matchup_pc' = IF refresh THEN "rerun"
                                ELSE IF ~api_key THEN "shown"
                                ELSE IF kept.none THEN "games"
                                ELSE "display"
               /\ filtered_matchups' =
                     IF ~refresh /\ ~api_key THEN <<>> ELSE filtered_matchups
    /\ UNCHANGED <<pageFrame, stats_in, matchup_ix, all_matchups, game_count,
                   game_ix, roster_games, matchup_cache, asked>>

\* get_games_for_date: no answer or no games returns []; otherwise the
\* list is cut to MAX_GAMES_TO_PROCESS and then read again in full
FetchGames ==
    /\ matchup_pc = "games"
    /\ \E n \in GamesCounts :
         /\ game_count' = n
         /\ matchup_data' = IF n = 0 THEN Matchups(<<>>) ELSE matchup_data
         /\ matchup_pc' = IF n = 0 THEN "display" ELSE "loop"
    /\ UNCHANGED <<pageFrame, stats_in, matchup_ix, all_matchups,
                   filtered_matchups, selected_game_date, game_date, game_ix,
                   roster_games, matchup_cache, asked>>

\* "for i, game in enumerate(games)": a game without probable pitchers is
\* skipped, for another the rosters are fetched and its batter looked up
VisitGame ==
    /\ matchup_pc = "loop"
    /\ game_ix < game_count
    /\ game_ix' = game_ix + 1
    /\ \E has_pitchers \in BOOLEAN :
         /\ roster_games' = IF has_pitchers THEN game_ix + 1
                            ELSE roster_games
         /\ matchup_pc' = IF has_pitchers /\ game_ix + 1 \in Batters
                          THEN "pair" ELSE "loop"
    /\ UNCHANGED <<pageFrame, stats_in, matchup_ix, all_matchups,
                   matchup_data, filtered_matchups, selected_game_date,
                   game_date, game_count, matchup_cache, asked>>

InitMatchup ==
    /\ variant = "matchup"
    /\ pc = "matchups"
    /\ ScanIdle
    /\ player_id = 1
    /\ BoardIdle
    /\ fetcher = "rapidapi"
    /\ api_key \in BOOLEAN
    /\ endpoint = "getMLBBatterVsPitcher"
    /\ disk = NoDisk
    /\ api_call_count = 0
    /\ api_call_reset = NoReset
    /\ depth = 0
    /\ sent = {}
    /\ api_pc = "idle"
    /\ result = NoResult
    /\ stats_in = <<>>
    /\ matchup_ix = 0
    /\ all_matchups = <<>>
    /\ matchup_data = NoMatchups
    /\ filtered_matchups = <<>>
    /\ matchup_pc = "start"
    /\ selected_game_date = NoDate
    /\ game_date = NoDate
    /\ game_count = 0
    /\ game_ix = 0
    /\ roster_games = 0
    /\ matchup_cache = NoCache
    /\ asked = NoCalls

NextMatchup ==
    \/ BeginRun
    \/ FetchGames
    \/ VisitGame
    \/ ProcessMatchup
    \/ StoreMatchups
    \/ FilterMatchups

SpecMatchup == InitMatchup /\ [][NextMatchup]_vars



-----------------------------------------------------------------------------
(* What the statistics of a chronological sequence of outcomes are         *)

MaxOfSet(S) == CHOOSE x \in S : \A y \in S : y <= x

\* positions of the games with a hit
HitGames(gs) == {i \in 1..Len(gs) : gs[i].had_hit = 1}

AllHits(gs, a, b) == \A j \in a..b : gs[j].had_hit = 1

\* length of the run of hit games that ends at the last game
TrailingRun(gs) == Cardinality({i \in 1..Len(gs) : AllHits(gs, i, Len(gs))})

\* length of the longest run of hit games anywhere
LongestRun(gs) ==
    MaxOfSet({0} \cup {Cardinality({b \in a..Len(gs) : AllHits(gs, a, b)}) :
                          a \in 1..Len(gs)})

\* hit games among the final min(n, L) games
TrailingWindowHits(gs, n) ==
    Cardinality({i \in HitGames(gs) : i > Len(gs) - Min(n, Len(gs))})

HasRecord == all_streak_data # <<>>

TheRecord == all_streak_data[1]

\* C1: once the scan of a date-ordered sequence of outcomes is over, the
\* record holds Games_With_Hit = number of hit games, Current_Streak = length
\* of the run of hit games ending at the last game (0 when the last game had
\* no hit), Max_Hit_Streak = length of the longest run of hit games.
C1_StreakScan ==
    HasRecord =>
        /\ TheRecord.Games_With_Hit = Cardinality(HitGames(games))
        /\ TheRecord.Current_Streak = TrailingRun(games)
        /\ TheRecord.Max_Hit_Streak = LongestRun(games)

\* a finished scan of a log whose longest run is not its last one
C1_Witness ==
    /\ HasRecord
    /\ TheRecord.Current_Streak > 0
    /\ TheRecord.Max_Hit_Streak > TheRecord.Current_Streak
    /\ TheRecord.Games_With_Hit > TheRecord.Max_Hit_Streak

\* C2: after every step of the scan the running counter is at most
\* max_streak and games_with_hit is at most the number of games visited, so
\* the record has Current_Streak <= Max_Hit_Streak and Games_With_Hit <= the
\* number of games.
C2_ScanBounds ==
    /\ streak <= max_streak
    /\ games_with_hit <= idx
    /\ idx <= Len(games)
    /\ HasRecord =>
         /\ TheRecord.Current_Streak <= TheRecord.Max_Hit_Streak
         /\ TheRecord.Games_With_Hit <= Len(games)

\* the scan is under way, in a run shorter than an earlier one
C2_Witness ==
    /\ pc = "scan"
    /\ 0 < idx
    /\ idx < Len(games)
    /\ 0 < streak
    /\ streak < max_streak
    /\ games_with_hit < idx

WindowOf(rec) ==
    IF "Last_15" \in DOMAIN rec THEN LAST_15_WINDOW ELSE LAST_10_WINDOW

WindowHits(rec) ==
    IF "Last_15" \in DOMAIN rec THEN rec.Last_15 ELSE rec.Last_10

HasWindow(rec) == "Last_15" \in DOMAIN rec \/ "Last_10" \in DOMAIN rec

\* C3: the trailing-window count (Last_15 with N = 15, Last_10 with N = 10)
\* is the number of hit games among the final min(N, L) games of the
\* date-sorted sequence of L games, hence at most min(N, L).
C3_TrailingWindow ==
    (HasRecord /\ HasWindow(TheRecord)) =>
        /\ ("Last_15" \in DOMAIN TheRecord) = (variant = "leaderboard")
        /\ ("Last_10" \in DOMAIN TheRecord) = (variant = "links")
        /\ WindowHits(TheRecord) = TrailingWindowHits(games, WindowOf(TheRecord))
        /\ WindowHits(TheRecord) <= Min(WindowOf(TheRecord), Len(games))

\* a log longer than the window of 15, with a hit before the window, whose
\* window count is neither the streak nor the season's count
C3_Witness ==
    /\ HasRecord
    /\ variant = "leaderboard"
    /\ Len(games) > LAST_15_WINDOW
    /\ TheRecord.Last_15 < TheRecord.Games_With_Hit
    /\ TheRecord.Last_15 > TheRecord.Current_Streak
    /\ TheRecord.Last_15 > TheRecord.Max_Hit_Streak

\* the splits in which the player had an official at-bat
WithAtBat(split) == split.atBats > 0

EligibleGames == SortedByDate(ExtractGames(SelectSeq(game_data, WithAtBat)))

\* C4: a game without an official at-bat is left out of the scanned
\* sequence: it neither extends nor resets the streak and is no hitless game
\* of the trailing window.
C4_NoAtBatExcluded ==
    HasRecord =>
        /\ games = EligibleGames
        /\ TheRecord.Current_Streak = TrailingRun(EligibleGames)
        /\ TheRecord.Max_Hit_Streak = LongestRun(EligibleGames)
        /\ HasWindow(TheRecord) =>
             WindowHits(TheRecord) =
                 TrailingWindowHits(EligibleGames, WindowOf(TheRecord))

\* The statistics as functions of the SET of splits of a log whose dates are
\* pairwise distinct: no order of the entries enters them.
DistinctDates(log) ==
    \A i, j \in 1..Len(log) : i # j => log[i].date # log[j].date

HitSplits(S) == {g \in S : g.hits > 0}

Later(S, g) == {m \in S : DayNo(m.date) > DayNo(g.date)}

SetCurrentStreak(S) ==
    Cardinality({g \in HitSplits(S) : Later(S, g) \subseteq HitSplits(S)})

\* the hit games from a on with no hitless game in between
RunFrom(S, a) ==
    {g \in HitSplits(S) :
        /\ DayNo(g.date) >= DayNo(a.date)
        /\ \A m \in S \ HitSplits(S) :
              ~(DayNo(a.date) < DayNo(m.date) /\ DayNo(m.date) < DayNo(g.date))}

SetMaxStreak(S) ==
    MaxOfSet({0} \cup {Cardinality(RunFrom(S, a)) : a \in HitSplits(S)})

SetWindowHits(S, n) ==
    Cardinality({g \in HitSplits(S) : Cardinality(Later(S, g)) < n})

\* C5: whatever order the provider returned the entries in, a log with
\* pairwise distinct dates is scanned in ascending date order, so that its
\* statistics depend on the set of entries only: every permutation of the
\* entries gives the same record.
C5_OrderIndependent ==
    (HasRecord /\ DistinctDates(game_data)) =>
        /\ \A i \in 1..(Len(games) - 1) :
              DayNo(games[i].date) < DayNo(games[i + 1].date)
        /\ TheRecord.Games_With_Hit = Cardinality(HitSplits(Range(game_data)))
        /\ TheRecord.Current_Streak = SetCurrentStreak(Range(game_data))
        /\ TheRecord.Max_Hit_Streak = SetMaxStreak(Range(game_data))
        /\ HasWindow(TheRecord) =>
             WindowHits(TheRecord) =
                 SetWindowHits(Range(game_data), WindowOf(TheRecord))

\* the provider returned the games out of order and a scan in that order
\* would have given another streak
C5_Witness ==
    /\ HasRecord
    /\ DistinctDates(game_data)
    /\ \E i \in 1..(Len(game_data) - 1) :
          DayNo(game_data[i].date) > DayNo(game_data[i + 1].date)
    /\ TheRecord.Current_Streak # TrailingRun(ExtractGames(game_data))


-----------------------------------------------------------------------------
(* The merged table (C6, C7)                                               *)

\* player i of the season totals got no record from fetch_hit_streaks:
\* not sampled, request failed, or game log empty
NoStreakRecord(v, b, i) ==
    \/ i \notin b.sampled
    \/ GameLogRecords(v, i, b.outcome[i]) = <<>>

\* the trailing-window column of each script's merged table
WindowColumns(v) ==
    CASE v = "leaderboard" -> {"Last_15"}
      [] v = "links" -> {"Last_10"}
      [] OTHER -> {}

RowsOf(frame, i) == {k \in 1..Len(frame) : frame[k].playerid = i}

ZeroStats(v, row) ==
    \A c \in StreakColumns \cup WindowColumns(v) : row[c] = Num(0)

\* C6: in a completed build, every player of the season totals without a
\* streak record is in the merged table, with Games_With_Hit, Current_Streak,
\* Max_Hit_Streak and the trailing-window column all zero.
C6_NoRecordAllZero ==
    build.status = "ok" =>
        \A i \in 1..Len(build.df) :
            NoStreakRecord(variant, build, i) =>
                /\ RowsOf(build.merged, i) # {}
                /\ \A k \in RowsOf(build.merged, i) :
                       ZeroStats(variant, build.merged[k])

\* exactly one sampled player's request failed and there are others, whose
\* requests all succeeded
OneFetchFailed(b) ==
    /\ Cardinality({i \in b.sampled : ~b.outcome[i].ok}) = 1
    /\ Cardinality(b.sampled) > 1

\* the statistics of a row are those of the player's own log (zero for an
\* empty log)
StatsFromLog(v, row, out) ==
    LET recs == GameLogRecords(v, row.playerid, out)
    IN  IF recs = <<>> THEN ZeroStats(v, row)
        ELSE \A c \in StreakColumns \cup WindowColumns(v) :
                 row[c] = Num(recs[1][c])

\* C7: in hitstreak_leaderboard, when one sampled player's game-log request
\* fails and the others' succeed, the build completes from the live season
\* totals, the failed player has zero statistics and every other sampled
\* player has the statistics of their own log.
C7_OneFailureTolerated ==
    (/\ variant = "leaderboard"
     /\ build.status \in {"ok", "raised"}
     /\ OneFetchFailed(build)) =>
        /\ build.status = "ok"
        /\ \A i \in build.sampled :
             /\ RowsOf(build.merged, i) # {}
             /\ \A k \in RowsOf(build.merged, i) :
                  IF build.outcome[i].ok
                  THEN StatsFromLog(variant, build.merged[k], build.outcome[i])
                  ELSE ZeroStats(variant, build.merged[k])

-----------------------------------------------------------------------------
(* The rows shown (C8, C9, C10)                                            *)

Displayed == pc = "idle" /\ shown.status \in {"table", "no_match"}

\* the rows the hitstreak_leaderboard filter is to keep: the threshold,
\* then the name containing the term, the allow-list only without a term
ExpectedLeaderboardRows ==
    LET passing == {row \in Range(streak_data.df) :
                        CellGe(row.Last_15, query.min)}
    IN  IF query.search # <<>>
        THEN {row \in passing :
                 PlainContains(LowerStr(row.Name), LowerStr(query.search))}
        ELSE IF query.watch # {}
        THEN {row \in passing : row.Name \in query.watch}
        ELSE passing

\* C8: in hitstreak_leaderboard the rows shown are the rows passing the
\* window-hits threshold whose name contains the search term, whatever the
\* case, when a term is given (the players to watch are then ignored), and
\* those whose name is among the players to watch when only they are given.
C8_SearchBeforeWatchList ==
    (Displayed /\ variant = "leaderboard") =>
        Range(shown.rows) = ExpectedLeaderboardRows

\* C9: in simple_streaks_links and simple_streaks_cached the rows shown are
\* exactly the players with Current_Streak >= min_streak, each once, the
\* highest streak first.
C9_MinStreakExactAndRanked ==
    (Displayed /\ variant \in {"links", "cached"}) =>
        /\ Range(shown.rows) =
              {row \in Range(streak_data.df) :
                   CellGe(row.Current_Streak, query.min)}
        /\ Cardinality(Range(shown.rows)) = Len(shown.rows)
        /\ IsSortedDesc(shown.rows, "Current_Streak")

\* C10: the rows of a table shown are in non-increasing order of the
\* script's ranking column, wherever the data came from.
C10_ShownInRankOrder ==
    shown.status = "table" => IsSortedDesc(shown.rows, RankColumn(variant))


-----------------------------------------------------------------------------
(* The session's data across a render (C11)                                *)

\* C11: a render (the display step of a run) leaves the data held in
\* st.session_state.streak_data as they are: no column added, no cell
\* changed, also when the loaded data have no Last_15 column.
C11_RenderKeepsSessionData ==
    [][pc = "display" => session'.streak_data = session.streak_data]_vars


-----------------------------------------------------------------------------
(* "No data available" and "no match" (C12)                                *)

Rendered == pc = "idle" /\ shown.status \in {"table", "no_match", "no_data"}

\* the rows the filters of the script keep, for the render's widget values
KeptRows ==
    IF variant = "leaderboard"
    THEN FilterLeaderboard(streak_data.df, query.min, query.search, query.watch)
    ELSE FilterStreaks(streak_data.df, query.min)

\* C12: a render reports "No data available" exactly when the loaded data
\* are missing or empty, and "no players/streaks matching" exactly when the
\* loaded data are not empty and the filters remove every row.
C12_NoDataVersusNoMatch ==
    Rendered =>
        /\ (shown.status = "no_data") = ~HasData(streak_data)
        /\ (shown.status = "no_match") =
              (HasData(streak_data) /\ KeptRows = <<>>)

C12_Witness ==
    /\ Rendered
    /\ shown.status = "no_match"
    /\ HasData(streak_data)
    /\ KeptRows = <<>>


-----------------------------------------------------------------------------
(* The season totals unavailable (C13, C14)                                *)

\* the run's request for the season totals failed (exception or a status
\* other than 200) and there is no cache file
TotalsFailedNoCache ==
    /\ pc = "idle"
    /\ build.status = "http_error"
    /\ ~cache_file.exists

\* C13 as stated: with the season totals unavailable and no cache file the
\* run ends in "No data available", no table rendered.
C13_NoCacheNoData ==
    TotalsFailedNoCache => shown.status = "no_data"

\* C13 as amended: with the season totals unavailable and no cache file the
\* run never ends in "No data available": the rows it filters and shows are
\* those of generate_demo_data(), or the run ends in the exception that
\* generate_demo_data() raised.
C13_NoCacheDemoShown ==
    TotalsFailedNoCache =>
        \/ shown.status = "error" /\ DemoCanRaise(variant)
        \/ /\ shown.status \in {"table", "no_match"}
           /\ HasData(streak_data)
           /\ streak_data.df \in DemoFrames(variant)

C13_Witness ==
    /\ TotalsFailedNoCache
    /\ variant = "leaderboard"
    /\ shown.status = "table"
    /\ streak_data.df \in DemoFrames(variant)

\* C14: when the request for the season totals fails (exception or a
\* status other than 200), fetch_mlb_hit_streaks returns the content of the
\* cache file if there is one, whatever its age, and the demo dataset only
\* if there is none; it returns a dataset and does not raise.
C14_FallbackReturnsDataset ==
    (variant \in {"leaderboard", "links"} /\ build.status = "http_error") =>
        /\ shown.status # "error"
        /\ pc = "display" =>
             /\ ~streak_data.none
             /\ IF cache_file.exists
                THEN streak_data.df = ReadJson(cache_file.json)
                ELSE streak_data.df \in DemoFrames(variant)


-----------------------------------------------------------------------------
(* Demo data on the page (C15)                                             *)

\* the page tells that the data are not live: the data source chosen is
\* "Demo Data" (sidebar note, footer "Data source: Demo"), or the run has
\* shown generate_demo_data()'s "Using demo data ..." note
MarkedNonLive == data_source = "Demo Data" \/ shown.demo_info

\* C15: a render that shows rows of the synthetic demo dataset marks them
\* as not live; they are never shown under the data source "MLB Data"
\* without any such mark.
C15_DemoMarkedNonLive ==
    (Rendered /\ shown.status = "table" /\ streak_data.demo) => MarkedNonLive


-----------------------------------------------------------------------------
(* The cache files in time (C16, C17, C19, C20)                            *)

\* a call of the fetch function has returned, or is about to call itself
CallOver == api_pc \in {"idle", "retry"} /\ result.kind # "none"

YoungAtCall == result.found /\ result.age < Window(fetcher)

OldAtCall == result.found /\ result.age >= Window(fetcher)

\* C16 as stated: a call that finds the cache file younger than the window
\* (3600 s, 6 h) and readable returns its content without an HTTP request;
\* a call that finds it at least as old as the window contacts the provider.
C16_FreshCacheNoRequest ==
    CallOver =>
        /\ (YoungAtCall /\ ~result.torn_read) =>
               (result.kind = "cache" /\ ~result.requested)
        /\ OldAtCall => result.requested

\* C16 as amended: the same for every call that fetch_from_rapidapi does
\* not refuse; a call without an API key returns None before the cache is
\* looked at, and a call over the rate limit on a non-critical endpoint
\* returns None without contacting the provider.
C16_FreshCacheUnlessRefused ==
    CallOver =>
        /\ (YoungAtCall /\ ~result.torn_read /\ result.kind # "no_key") =>
               (result.kind = "cache" /\ ~result.requested)
        /\ (OldAtCall /\ result.kind \notin {"no_key", "rate_limited"}) =>
               result.requested

C16_Witness ==
    /\ CallOver
    /\ fetcher = "rapidapi"
    /\ result.kind = "cache"
    /\ result.age = SIX_HOURS - ONE_MINUTE

\* a step of the session's own call
CallStep == result' # result \/ api_pc' # api_pc

\* the file as it was: same content, not opened, modification time not moved
FileUntouched ==
    /\ disk'.exists = disk.exists
    /\ disk'.data = disk.data
    /\ disk'.torn = disk.torn
    /\ disk'.age >= disk.age

\* C17: the cache file is written only by a successful fetch: every step of
\* a call that does not return live data (exception, timeout, another
\* status, refusal by the rate limiter) leaves content and modification
\* time as they were.
C17_WriteOnSuccessOnly ==
    [][(CallStep /\ result'.kind # "live") => FileUntouched]_vars

C17_Witness ==
    /\ api_pc = "idle"
    /\ result.kind \in {"failed", "rate_limited"}
    /\ disk.exists
    /\ disk.data = "p1"

\* C19: with two sessions on one cache file, no session reads a file that
\* another is writing: a fresh file read is a complete payload, and the
\* fallback read does not fail on a file being written.
C19_NoTornRead ==
    ~result.torn_read

\* C20: 0 <= api_call_count <= MAX_CALLS_PER_MINUTE in every state, and a
\* cache hit or a call without an API key leaves the counter as it is.
C20_CounterWithinLimit ==
    /\ [](api_call_count \in 0..MAX_CALLS_PER_MINUTE)
    /\ [][(CallStep /\ result'.kind \in {"cache", "no_key"}) =>
             api_call_count' = api_call_count]_vars

C20_Witness ==
    /\ api_call_count = MAX_CALLS_PER_MINUTE
    /\ result.kind = "rate_limited"

-----------------------------------------------------------------------------
(* Placeholders in the numbers of a matchup (C18)                          *)

ZeroIfPlaceholder(text) == IF IntRaises(text) THEN 0 ELSE IntOf(text)

\* C18: every pair process_matchup was called for is recorded, a
\* non-numeric AB, H or HR taken as zero; none is dropped.
C18_PlaceholderTakenAsZero ==
    /\ Len(all_matchups) = Len(stats_in)
    /\ \A n \in 1..Len(all_matchups) :
         /\ all_matchups[n].id = stats_in[n].batter
         /\ all_matchups[n].AB = ZeroIfPlaceholder(stats_in[n].stats.AB)
         /\ all_matchups[n].H = ZeroIfPlaceholder(stats_in[n].stats.H)
         /\ all_matchups[n].HR = ZeroIfPlaceholder(stats_in[n].stats.HR)

-----------------------------------------------------------------------------
(* The rate limiter and the retries of fetch_from_rapidapi (C21, C22, C23) *)

RECURSIVE SumSent(_)
SumSent(s) ==
    IF s = {} THEN 0
    ELSE LET e == CHOOSE x \in s : TRUE IN e.n + SumSent(s \ {e})

\* C21: in any 60-second interval the session issues at most PLAN_LIMIT
\* (20) HTTP requests, whatever the timing of its calls.
C21_WithinPlanLimit ==
    SumSent(sent) <= PLAN_LIMIT

\* C22: a call refused at the per-minute limit on a non-critical endpoint
\* issues no HTTP request and returns the content of the cache file when
\* there is one, None otherwise.
C22_RefusedReturnsCache ==
    [][(result.kind = "pending" /\ result'.kind = "rate_limited") =>
          /\ ~result'.requested
          /\ result'.data = IF disk.exists THEN disk.data ELSE ""]_vars

\* C23: every call of fetch_from_rapidapi returns, after at most
\* MaxDepth + 1 HTTP requests, whatever the provider answers, 429 after 429
\* included.
C23_CallReturns ==
    /\ [](depth <= MaxDepth)
    /\ (api_pc # "idle") ~> (api_pc = "idle")

C23_Witness ==
    /\ api_pc = "idle"
    /\ fetcher = "rapidapi"
    /\ result.kind = "too_deep"
    /\ result.requested

-----------------------------------------------------------------------------
(* The matchup page: games, stored list, reruns, lookups (C24 to C27)      *)

\* C24: rosters and matchups are fetched for the first MAX_GAMES_TO_PROCESS
\* (6) games of the date only.
C24_AtMostSixGames ==
    roster_games <= MAX_GAMES_TO_PROCESS

\* C25: when process_matchups has recorded at least one matchup, the page
\* stores the recorded list, ordered by batting average descending, in
\* session matchup_data before it displays.
C25_StoresSortedList ==
    (matchup_pc = "display" /\ all_matchups # <<>>) =>
        matchup_data = Matchups(SortedByAvg(all_matchups))

\* C26: a rerun with the same date selection as the run before, without
\* Refresh, keeps session matchup_data and does not fetch again.
C26_KeptAcrossReruns ==
    [][(/\ matchup_pc = "shown"
        /\ matchup_pc' \in {"games", "display"}
        /\ selected_game_date'.kind = selected_game_date.kind
        /\ selected_game_date'.day = selected_game_date.day) =>
           (matchup_data' = matchup_data /\ matchup_pc' = "display")]_vars

\* C27: get_batter_vs_pitcher fetches at most once per batter in a session,
\* whatever the fetch returned; a call for a pair asked before returns the
\* stored result of the first call, without a fetch; what it returns is
\* always a stats body.
C27_OneFetchPerBatter ==
    /\ [](\A b \in Batters : asked[b].fetches <= 1)
    /\ [][\A b \in Batters, p \in Pitchers :
            matchup_cache.pair[b][p].kind # "absent" =>
                matchup_cache'.pair[b][p] = matchup_cache.pair[b][p]]_vars
    /\ [][matchup_ix' = matchup_ix + 1 =>
            LET r == stats_in'[Len(stats_in')]
                cached == matchup_cache.pair[r.batter][r.pitcher]
            IN  /\ r.stats \in StatsValues \cup {EmptyStats}
                /\ cached.kind # "absent" =>
                     /\ r.stats = cached.stats
                     /\ asked' = [asked EXCEPT ![r.batter].calls =
                                                   Min(@ + 1, 2)]
                     /\ matchup_cache' = matchup_cache]_vars

C27_Witness ==
    \E b \in Batters :
        /\ asked[b].calls = 2
        /\ asked[b].fetches = 1
        /\ matchup_cache.batter[b].kind = "none"
        /\ \A p \in Pitchers : matchup_cache.pair[b][p].kind = "result"


\* C28: in simple_streaks_cached a refresh attempt always leaves
\* is_refreshing False, and one in which fetch_mlb_data returned None (a
\* status other than 200, or an exception) leaves the session's streak_data
\* and the cache file as they were.
RefreshAttempt ==
    /\ variant = "cached"
    /\ pc = "loaded"
    /\ session.is_refreshing
    /\ data_source = "MLB Data"
    /\ build' # build

C28_FailedRefreshKeepsData ==
    [][RefreshAttempt =>
         /\ ~session'.is_refreshing
         /\ build'.status # "ok" =>
               /\ session'.streak_data = session.streak_data
               /\ cache_file' = cache_file]_vars

\* a refresh has failed in a session that had a table from the cache file:
\* the table and the file are still there, the flag is down
C28_Witness ==
    /\ variant = "cached"
    /\ pc = "loaded"
    /\ build.status \in {"http_error", "raised"}
    /\ ~session.is_refreshing
    /\ ~session.streak_data.none
    /\ ~session.streak_data.demo
    /\ cache_file.exists
    /\ session.streak_data.df = ReadJson(cache_file.json)

=============================================================================
